---- MODULE Spec2Model ----
(***************************************************************************)
(* A model of play_store_grossing.py: the command-line pipeline            *)
(*   parse_args -> build_url -> fetch_html -> extract_apps -> trim_entries *)
(*   -> output_csv / output_json -> exit status                            *)
(* and of the regular-expression scan inside extract_apps.                 *)
(*                                                                         *)
(* Text is a sequence of lexemes.  Every literal of the two regular        *)
(* expressions (`<a`, `href="/store/apps/details?id=`, `aria-label="`, `"`,*)
(* `>`) is one lexeme, and every other lexeme is a run of characters that  *)
(* each character class of the expressions treats uniformly, so matching   *)
(* over lexemes is matching over characters.  An optional value (None or a *)
(* value) is a sequence of length at most one.                             *)
(***************************************************************************)
EXTENDS Integers, Sequences, FiniteSets, TLC

VARIABLES
    pc,            \* the position of the run
    argv,          \* the command line: the raw option values as given
    args,          \* the argparse.Namespace parse_args returns
    url,           \* the value of build_url
    requests,      \* how many times urlopen has been called
    raised,        \* the exception propagating out of main, if any
    html,          \* the page text: fetch_html's value, extract_apps's argument
    pos,           \* where finditer resumes scanning html
    entries,       \* extract_apps: the list `entries`
    seen,          \* extract_apps: the set `seen`
    main_entries,  \* main: `entries`, the value of trim_entries
    stdout,        \* what has been written to sys.stdout
    stderr,        \* what has been written to sys.stderr
    exit_status,   \* the status the process ended with
    steps          \* the calls of main completed so far, in order

vars == <<pc, argv, args, url, requests, raised, html, pos, entries, seen,
          main_entries, stdout, stderr, exit_status, steps>>

(***************************************************************************)
(* Bounds of the model.                                                    *)
(***************************************************************************)
MaxSegs == 3        \* a page text of the extraction harness: at most this many fragments
MaxPageSegs == 1    \* a page a fetch of the pipeline returns: at most this many fragments
MaxLimit == 3       \* the extraction harness trims with limits -MaxLimit..MaxLimit
MaxArgLen == 2      \* the raw --limit value has at most this many characters

None == <<>>
Some(v) == <<v>>

Min(S) == CHOOSE x \in S : \A y \in S : x <= y
Max(S) == CHOOSE x \in S : \A y \in S : x >= y

RECURSIVE SeqsUpTo(_, _)
SeqsUpTo(S, n) ==
    IF n = 0 THEN {<<>>}
    ELSE LET shorter == SeqsUpTo(S, n - 1)
         IN shorter \cup {Append(s, x) : s \in shorter, x \in S}

RECURSIVE Flatten(_)
Flatten(ss) == IF ss = <<>> THEN <<>> ELSE Head(ss) \o Flatten(Tail(ss))

(***************************************************************************)
(* Lexemes of page text, and what each character class makes of them.      *)
(***************************************************************************)
HREF == "href=\"/store/apps/details?id="
ARIA == "aria-label=\""
QUOTE == "\""

WithGT == {">", "</a>"}                 \* lexemes holding a `>` (as their last character)
WithLT == {"<a", "<A", "</a>"}          \* lexemes holding a `<` (as their first character)
WithQuote == {QUOTE, HREF, ARIA}        \* lexemes holding a `"` (each holds one)
WithAmp == {"&", "&amp;"}               \* lexemes holding a `&` (as their first character)
HasQuote(t) == t \in WithQuote
IsOpenA(t) == t \in {"<a", "<A"}        \* `<a` under re.IGNORECASE

\* The characters of a lexeme before its `"`: a class excluding `"` matches them.
BeforeQuote(t) ==
    IF t = HREF THEN <<"href=">>
    ELSE IF t = ARIA THEN <<"aria-label=">>
    ELSE <<>>

\* The first index at or after i whose lexeme stops a greedy run; Len(h) + 1 at the end.
Run(h, i, stops) ==
    Min({j \in i..(Len(h) + 1) : j = Len(h) + 1 \/ h[j] \in stops})

NoMatch == [found |-> FALSE, start |-> 0, tag_stop |-> 0, stop |-> 0, group1 |-> <<>>]

\* APP_LINK_RE from the lexeme after `href="/store/apps/details?id=` at index k:
\*   ([^&"]+)[^"]*"[^>]*>[^<]*
TryHref(h, s, k) ==
    LET id_stop == Run(h, k + 1, WithAmp \cup WithQuote)
        group1 == SubSeq(h, k + 1, id_stop - 1)
                  \o (IF id_stop <= Len(h) /\ HasQuote(h[id_stop])
                      THEN BeforeQuote(h[id_stop]) ELSE <<>>)
        quote == Run(h, id_stop, WithQuote)
        gt == Run(h, quote + 1, WithGT)
    IN IF group1 = <<>> \/ quote > Len(h) \/ gt > Len(h)
       THEN NoMatch
       ELSE [found |-> TRUE, start |-> s, tag_stop |-> gt + 1,
             stop |-> Run(h, gt + 1, WithLT), group1 |-> group1]

\* APP_LINK_RE at the `<a` at index s: <a[^>]+href="/store/apps/details\?id=...
\* [^>]+ is greedy, so the last href before the first `>` that leads to a match wins.
MatchAt(h, s) ==
    LET gt == Run(h, s + 1, WithGT)
        hrefs == {k \in (s + 2)..(gt - 1) : h[k] = HREF /\ TryHref(h, s, k).found}
    IN IF hrefs = {} THEN NoMatch ELSE TryHref(h, s, Max(hrefs))

\* The next match of APP_LINK_RE.finditer(h) at or after pos.
FindNext(h, p) ==
    LET starts == {s \in p..Len(h) : IsOpenA(h[s]) /\ MatchAt(h, s).found}
    IN IF starts = {} THEN NoMatch ELSE MatchAt(h, Min(starts))

\* ARIA_LABEL_RE.search(text): aria-label="([^"]+)", leftmost match.
AriaSearch(text) ==
    LET Label(p) ==
            LET quote == Run(text, p + 1, WithQuote)
            IN IF quote > Len(text) THEN <<>>
               ELSE SubSeq(text, p + 1, quote - 1) \o BeforeQuote(text[quote])
        hits == {p \in 1..Len(text) : text[p] = ARIA /\ Label(p) # <<>>}
    IN IF hits = {} THEN [found |-> FALSE, group1 |-> <<>>]
       ELSE [found |-> TRUE, group1 |-> Label(Min(hits))]

\* html.unescape: a character reference becomes its character.
unescape(s) == [i \in 1..Len(s) |-> IF s[i] = "&amp;" THEN "&" ELSE s[i]]

\* str.strip: leading and trailing whitespace removed.
strip(s) ==
    LET inked == {i \in 1..Len(s) : s[i] # " "}
    IN IF inked = {} THEN <<>> ELSE SubSeq(s, Min(inked), Max(inked))

\* Lines 65-67: the title of a match.
TitleOf(h, m) ==
    LET anchor_tag == SubSeq(h, m.start, m.stop - 1)
        label_match == AriaSearch(anchor_tag)
    IN IF label_match.found THEN strip(unescape(label_match.group1)) ELSE <<>>

(***************************************************************************)
(* extract_apps (lines 57-71).                                             *)
(***************************************************************************)
AppEntry(rank, app_id, title) == [rank |-> rank, app_id |-> app_id, title |-> title]

\* A later anchor with a known identifier overwrites the title already recorded.
LoopBody_LastWins(h, m, es, sn) ==
    LET app_id == m.group1
    IN IF app_id \in sn
       THEN [entries |-> [i \in 1..Len(es) |->
                            IF es[i].app_id = app_id
                            THEN AppEntry(es[i].rank, app_id, TitleOf(h, m))
                            ELSE es[i]],
             seen |-> sn]
       ELSE [entries |-> Append(es, AppEntry(Len(es) + 1, app_id, TitleOf(h, m))),
             seen |-> sn \cup {app_id}]

\* The identifier is never added to `seen`.
LoopBody_ForgetsSeen(h, m, es, sn) ==
    LET app_id == m.group1
    IN IF app_id \in sn
       THEN [entries |-> es, seen |-> sn]
       ELSE [entries |-> Append(es, AppEntry(Len(es) + 1, app_id, TitleOf(h, m))),
             seen |-> sn]

\* The rank is the length of the list, without the + 1.
LoopBody_RankFromZero(h, m, es, sn) ==
    LET app_id == m.group1
    IN IF app_id \in sn
       THEN [entries |-> es, seen |-> sn]
       ELSE [entries |-> Append(es, AppEntry(Len(es), app_id, TitleOf(h, m))),
             seen |-> sn \cup {app_id}]

\* Lines 62-69: the body of the loop, for the match m of html h.
LoopBody(h, m, es, sn) ==
    LET app_id == m.group1
    IN IF app_id \in sn
       THEN [entries |-> es, seen |-> sn]
       ELSE [entries |-> Append(es, AppEntry(Len(es) + 1, app_id, TitleOf(h, m))),
             seen |-> sn \cup {app_id}]

(***************************************************************************)
(* trim_entries (lines 74-77): entries[:limit] is Python's slice, where a  *)
(* negative stop counts from the end and every stop is clamped to the list.*)
(***************************************************************************)
SliceTo(es, n) ==
    LET stop == IF n < 0 THEN Max({Len(es) + n, 0}) ELSE Min({n, Len(es)})
    IN SubSeq(es, 1, stop)

trim_entries(es, limit) == IF limit = None THEN es ELSE SliceTo(es, limit[1])

(***************************************************************************)
(* build_url (lines 33-40).  A URL is a sequence of lexemes: BASE_URL,     *)
(* `?`, a parameter name, or a character.                                  *)
(***************************************************************************)
BASE_URL == "https://play.google.com/store/apps/collection/topgrossing"

\* urllib.parse.quote_plus of one character.
QuotePlus(c) ==
    CASE c = " " -> <<"+">>
      [] c = "&" -> <<"%", "2", "6">>
      [] c = "=" -> <<"%", "3", "D">>
      [] OTHER -> <<c>>

QuoteStr(s) == Flatten([i \in 1..Len(s) |-> QuotePlus(s[i])])

\* urllib.parse.urlencode of the dict, a sequence of <<key, value>> in insertion order.
urlencode(params) ==
    Flatten([i \in 1..Len(params) |->
                (IF i = 1 THEN <<>> ELSE <<"&">>)
                \o <<params[i][1], "=">> \o QuoteStr(params[i][2])])

\* `if category:` is false of None and of the empty string alike.
build_url(language, region, category) ==
    LET params == <<<<"hl", language>>, <<"gl", region>>>>
                  \o (IF category # None /\ category[1] # <<>>
                      THEN <<<<"category", category[1]>>>> ELSE <<>>)
    IN <<BASE_URL, "?">> \o urlencode(params)

(***************************************************************************)
(* parse_args (lines 96-118).                                              *)
(***************************************************************************)
DefaultLimit == 50
Digits == <<"0", "1", "2", "3", "4", "5", "6", "7", "8", "9">>
IsDigit(c) == \E d \in 1..10 : Digits[d] = c
DigitValue(c) == (CHOOSE d \in 1..10 : Digits[d] = c) - 1

RECURSIVE Decimal(_)
Decimal(ds) ==
    IF ds = <<>> THEN 0
    ELSE 10 * Decimal(SubSeq(ds, 1, Len(ds) - 1)) + DigitValue(ds[Len(ds)])

\* int(raw), the `type` of --limit: an optional sign and one or more digits;
\* anything else raises ValueError, which argparse reports as a usage error.
Unsigned(raw) == IF raw # <<>> /\ raw[1] \in {"-", "+"} THEN Tail(raw) ELSE raw
IsInt(raw) ==
    /\ Unsigned(raw) # <<>>
    /\ \A i \in 1..Len(Unsigned(raw)) : IsDigit(Unsigned(raw)[i])
IntOf(raw) ==
    IF raw[1] = "-" THEN 0 - Decimal(Unsigned(raw)) ELSE Decimal(Unsigned(raw))

Malformed(av) == av.limit # None /\ ~IsInt(av.limit[1])

Namespace(av) ==
    [hl |-> IF av.hl = None THEN <<"k", "o">> ELSE av.hl[1],
     gl |-> IF av.gl = None THEN <<"K", "R">> ELSE av.gl[1],
     category |-> av.category,
     limit |-> IF av.limit = None THEN Some(DefaultLimit) ELSE Some(IntOf(av.limit[1])),
     json |-> av.json]

(***************************************************************************)
(* output_csv and output_json (lines 80-93): what each writes to stdout.   *)
(***************************************************************************)
Written(kind, es) == [kind |-> kind, payload |-> es]

output_csv(es) ==
    <<Written("csv header", <<>>)>>
    \o [i \in 1..Len(es) |-> Written("csv row", <<es[i]>>)]

output_json(es) == <<Written("json array", es), Written("newline", <<>>)>>

NoEntriesMessage == "No entries found. HTML structure may have changed.\n"

(***************************************************************************)
(* The inputs of the model.                                                *)
(***************************************************************************)
\* Fragments of page text; a page is a concatenation of fragments.
WithLabel    == <<"<a", " ", HREF, "x", QUOTE, " ", ARIA, "T", QUOTE, ">", "T", "</a>">>
WithQuery    == <<"<a", " ", HREF, "x", "&", "y", QUOTE, ">", "T", "</a>">>
LabelInText  == <<"<a", " ", HREF, "y", QUOTE, ">", ARIA, "T", QUOTE>>
LabelFirst   == <<"<a", " ", ARIA, " ", "T", "&amp;", "T", " ", QUOTE, " ",
                  HREF, "y", QUOTE, ">">>
UpperCase    == <<"<A", " ", HREF, "x", "y", QUOTE, ">">>
EmptyLabel   == <<"<a", " ", HREF, "x", QUOTE, " ", ARIA, QUOTE, ">">>
TwoHrefs     == <<"<a", " ", HREF, "x", QUOTE, " ", HREF, "y", QUOTE, ">">>
Unterminated == <<"<a", " ", HREF, "y">>

Fragments ==
    {WithLabel, WithQuery, LabelInText, LabelFirst, UpperCase, EmptyLabel,
     TwoHrefs, Unterminated, <<QUOTE>>, <<">">>}

Htmls(n) == {Flatten(fs) : fs \in SeqsUpTo(Fragments, n)}

HlArgs == {None, Some(<<"e", "n">>)}
GlArgs == {None, Some(<<"U", "S">>)}
CategoryArgs == {None, Some(<<>>), Some(<<"G", "&", " ">>)}
LimitChars == {"-", "0", "1", "a"}
LimitArgs == {None} \cup {Some(raw) : raw \in SeqsUpTo(LimitChars, MaxArgLen)}

Argvs == [hl : HlArgs, gl : GlArgs, category : CategoryArgs, limit : LimitArgs,
          json : BOOLEAN]

NoArgv == [hl |-> None, gl |-> None, category |-> None, limit |-> None, json |-> FALSE]

TrimLimits == {None} \cup {Some(n) : n \in (0 - MaxLimit)..MaxLimit}

(***************************************************************************)
(* The run of the program.                                                 *)
(***************************************************************************)
Start(av, where, page) ==
    /\ pc = where
    /\ argv = av
    /\ args = Namespace(NoArgv)
    /\ url = <<>>
    /\ requests = 0
    /\ raised = None
    /\ html = page
    /\ pos = 1
    /\ entries = <<>>
    /\ seen = {}
    /\ main_entries = <<>>
    /\ stdout = <<>>
    /\ stderr = <<>>
    /\ exit_status = None
    /\ steps = <<>>

\* The process starts with its command line, before main is called.
Init == \E av \in Argvs : Start(av, "parse_args", <<>>)

\* extract_apps is called with a page text.
InitExtract == \E page \in Htmls(MaxSegs) : Start(NoArgv, "extract_apps", page)

\* A malformed --limit is replaced by the default and the run goes on.
ParseArgsError_Fallback ==
    /\ pc = "parse_args"
    /\ Malformed(argv)
    /\ args' = Namespace([argv EXCEPT !.limit = None])
    /\ steps' = Append(steps, "parse_args")
    /\ pc' = "build_url"
    /\ UNCHANGED <<argv, url, requests, raised, html, pos, entries, seen,
                   main_entries, stdout, stderr, exit_status>>

\* Line 122, parse_args returns.
ParseArgs ==
    /\ pc = "parse_args"
    /\ ~Malformed(argv)
    /\ args' = Namespace(argv)
    /\ steps' = Append(steps, "parse_args")
    /\ pc' = "build_url"
    /\ UNCHANGED <<argv, url, requests, raised, html, pos, entries, seen,
                   main_entries, stdout, stderr, exit_status>>

\* Line 122, parse_args rejects the command line: argparse prints the usage and the
\* error to stderr and exits with status 2.
ParseArgsError ==
    /\ pc = "parse_args"
    /\ Malformed(argv)
    /\ stderr' = Append(stderr, "usage")
    /\ exit_status' = Some(2)
    /\ pc' = "exited"
    /\ UNCHANGED <<argv, args, url, requests, raised, html, pos, entries, seen,
                   main_entries, stdout, steps>>

\* Line 123.
BuildUrl ==
    /\ pc = "build_url"
    /\ url' = build_url(args.hl, args.gl, args.category)
    /\ steps' = Append(steps, "build_url")
    /\ pc' = "fetch_html"
    /\ UNCHANGED <<argv, args, requests, raised, html, pos, entries, seen,
                   main_entries, stdout, stderr, exit_status>>

\* Line 124, urlopen answers: the page is whatever the server sends.
FetchOk ==
    /\ pc = "fetch_html"
    /\ \E page \in Htmls(MaxPageSegs) : html' = page
    /\ requests' = requests + 1
    /\ steps' = Append(steps, "fetch_html")
    /\ pc' = "extract_apps"
    /\ UNCHANGED <<argv, args, url, raised, pos, entries, seen, main_entries,
                   stdout, stderr, exit_status>>

\* The failed request is made again.
FetchFail_Retry ==
    /\ pc = "fetch_html"
    /\ requests < 2
    /\ requests' = requests + 1
    /\ UNCHANGED <<pc, argv, args, url, raised, html, pos, entries, seen,
                   main_entries, stdout, stderr, exit_status, steps>>

\* Line 124, urlopen raises (URLError, timeout): nothing in main or at line 139
\* catches it, so the interpreter prints the traceback and exits with status 1.
FetchFail ==
    /\ pc = "fetch_html"
    /\ requests' = requests + 1
    /\ raised' = Some("URLError")
    /\ stderr' = Append(stderr, "Traceback")
    /\ exit_status' = Some(1)
    /\ pc' = "exited"
    /\ UNCHANGED <<argv, args, url, html, pos, entries, seen, main_entries,
                   stdout, steps>>

\* Lines 61-69, one iteration of the loop: finditer yields the next match.
ScanMatch ==
    /\ pc = "extract_apps"
    /\ LET match == FindNext(html, pos)
       IN /\ match.found
          /\ entries' = LoopBody(html, match, entries, seen).entries
          /\ seen' = LoopBody(html, match, entries, seen).seen
          /\ pos' = match.stop
    /\ UNCHANGED <<pc, argv, args, url, requests, raised, html, main_entries,
                   stdout, stderr, exit_status, steps>>

\* Lines 61 and 71: finditer is exhausted and extract_apps returns `entries`.
ScanEnd ==
    /\ pc = "extract_apps"
    /\ ~FindNext(html, pos).found
    /\ steps' = Append(steps, "extract_apps")
    /\ pc' = "trim_entries"
    /\ UNCHANGED <<argv, args, url, requests, raised, html, pos, entries, seen,
                   main_entries, stdout, stderr, exit_status>>

\* Line 125, trim_entries(..., args.limit).
Trim ==
    /\ pc = "trim_entries"
    /\ main_entries' = trim_entries(entries, args.limit)
    /\ steps' = Append(steps, "trim_entries")
    /\ pc' = "output"
    /\ UNCHANGED <<argv, args, url, requests, raised, html, pos, entries, seen,
                   stdout, stderr, exit_status>>

\* trim_entries called with any limit its signature allows.
TrimAny ==
    /\ pc = "trim_entries"
    /\ \E limit \in TrimLimits :
          /\ args' = [args EXCEPT !.limit = limit]
          /\ main_entries' = trim_entries(entries, limit)
    /\ steps' = Append(steps, "trim_entries")
    /\ pc' = "trimmed"
    /\ UNCHANGED <<argv, url, requests, raised, html, pos, entries, seen,
                   stdout, stderr, exit_status>>

\* Nothing is written when there is nothing to list.
Output_SkipEmpty ==
    /\ pc = "output"
    /\ stdout' = IF main_entries = <<>> THEN stdout
                 ELSE stdout \o (IF args.json THEN output_json(main_entries)
                                 ELSE output_csv(main_entries))
    /\ steps' = Append(steps, "output")
    /\ pc' = "check"
    /\ UNCHANGED <<argv, args, url, requests, raised, html, pos, entries, seen,
                   main_entries, stderr, exit_status>>

\* Lines 127-130.
Output ==
    /\ pc = "output"
    /\ stdout' = stdout \o (IF args.json THEN output_json(main_entries)
                            ELSE output_csv(main_entries))
    /\ steps' = Append(steps, "output")
    /\ pc' = "check"
    /\ UNCHANGED <<argv, args, url, requests, raised, html, pos, entries, seen,
                   main_entries, stderr, exit_status>>

\* Lines 132-133.
Diagnose ==
    /\ pc = "check"
    /\ main_entries = <<>>
    /\ stderr' = Append(stderr, NoEntriesMessage)
    /\ pc' = "return 1"
    /\ UNCHANGED <<argv, args, url, requests, raised, html, pos, entries, seen,
                   main_entries, stdout, exit_status, steps>>

\* Line 134.
ReturnFailure ==
    /\ pc = "return 1"
    /\ exit_status' = Some(1)
    /\ steps' = Append(steps, "return")
    /\ pc' = "exited"
    /\ UNCHANGED <<argv, args, url, requests, raised, html, pos, entries, seen,
                   main_entries, stdout, stderr>>

\* Lines 132 and 135.
ReturnSuccess ==
    /\ pc = "check"
    /\ main_entries # <<>>
    /\ exit_status' = Some(0)
    /\ steps' = Append(steps, "return")
    /\ pc' = "exited"
    /\ UNCHANGED <<argv, args, url, requests, raised, html, pos, entries, seen,
                   main_entries, stdout, stderr>>

Next ==
    \/ ParseArgs
    \/ ParseArgsError
    \/ BuildUrl
    \/ FetchOk
    \/ FetchFail
    \/ ScanMatch
    \/ ScanEnd
    \/ Trim
    \/ Output
    \/ Diagnose
    \/ ReturnFailure
    \/ ReturnSuccess

\* One run of the program.
Spec == Init /\ [][Next]_vars

NextExtract ==
    \/ ScanMatch
    \/ ScanEnd
    \/ TrimAny

\* extract_apps on any page text, and trim_entries on its value with any limit.
SpecExtract == InitExtract /\ [][NextExtract]_vars

(***************************************************************************)
(* What the claims speak of.                                               *)
(***************************************************************************)
\* list(APP_LINK_RE.finditer(h)): every match, in document order.
RECURSIVE Matches(_, _)
Matches(h, p) ==
    LET m == FindNext(h, p)
    IN IF m.found THEN <<m>> \o Matches(h, m.stop) ELSE <<>>

\* The matches that are the first with their identifier.
FirstOccurrences(ms) ==
    {i \in 1..Len(ms) : \A j \in 1..(i - 1) : ms[j].group1 # ms[i].group1}

\* The match that is the k-th of those in `first`.
NthOf(first, k) == CHOOSE i \in first : Cardinality({j \in first : j <= i}) = k

\* 'Keep first occurrence' of the matches ms of h: the k-th distinct identifier with
\* the title of its first match.
KeepFirstOf(h, ms, first) ==
    [k \in 1..Cardinality(first) |->
        [app_id |-> ms[NthOf(first, k)].group1, title |-> TitleOf(h, ms[NthOf(first, k)])]]

Dedup(h, ms) == KeepFirstOf(h, ms, FirstOccurrences(ms))

KeepFirst(h) == Dedup(h, Matches(h, 1))

IdAndTitle(es) == [i \in 1..Len(es) |-> [app_id |-> es[i].app_id, title |-> es[i].title]]

\* extract_apps has just returned.
Returned == pc = "trim_entries"

\* C1: the list extract_apps returns is the keep-first de-duplication of the matches:
\* the k-th entry has the k-th distinct identifier and the title of its first match,
\* and as many entries as matches when no identifier repeats.
C1_KeepsFirstOccurrence ==
    Returned =>
        /\ IdAndTitle(entries) = KeepFirst(html)
        /\ (FirstOccurrences(Matches(html, 1)) = 1..Len(Matches(html, 1))
              => Len(entries) = Len(Matches(html, 1)))

\* A later match repeats an identifier with another title than the first one's.
C1_Witness ==
    /\ Returned
    /\ Len(entries) >= 2
    /\ LET ms == Matches(html, 1)
       IN \E i, j \in 1..Len(ms) :
             /\ i < j
             /\ i \in FirstOccurrences(ms)
             /\ ms[i].group1 = ms[j].group1
             /\ TitleOf(html, ms[i]) # TitleOf(html, ms[j])

\* C2: at every step of the scan the identifiers of the entries are pairwise distinct
\* and `seen` is exactly the set of them.
C2_SeenIsTheIdentifiers ==
    /\ \A i, j \in 1..Len(entries) : entries[i].app_id = entries[j].app_id => i = j
    /\ seen = {entries[i].app_id : i \in 1..Len(entries)}

\* Two anchors with one identifier gave one entry.
C2_Witness ==
    /\ Returned
    /\ Len(entries) = 1
    /\ Len(Matches(html, 1)) >= 2

\* C3: the entry at position i has rank i, whatever duplicates were skipped.
C3_RanksAreDense ==
    \A i \in 1..Len(entries) : entries[i].rank = i

\* A duplicate was skipped between two kept entries.
C3_Witness ==
    /\ Returned
    /\ LET ms == Matches(html, 1)
       IN \E i, j, k \in 1..Len(ms) :
             /\ i < j /\ j < k
             /\ ms[i].group1 = ms[j].group1
             /\ k \in FirstOccurrences(ms)
    /\ entries[Len(entries)].rank = Len(entries)

MinOf(a, b) == IF a <= b THEN a ELSE b

IsPrefix(s, t) == Len(s) <= Len(t) /\ s = SubSeq(t, 1, Len(s))

\* C4: trim_entries returns the first min(N, L) entries, those at the positions
\* 1..min(N, L): the first L of them, a prefix, when L < N, the whole list when
\* L >= N, and the list itself when the limit is None.
C4_TrimReturnsFirstMin ==
    pc = "trimmed" =>
        LET N == Len(entries)
        IN IF args.limit = None THEN main_entries = entries
           ELSE LET L == args.limit[1]
                IN /\ main_entries = SubSeq(entries, 1, MinOf(N, L))
                   /\ (L < N => /\ IsPrefix(main_entries, entries)
                                /\ Len(main_entries) = Cardinality(1..L))
                   /\ (L >= N => main_entries = entries)

FetchSucceeded == requests = 1 /\ raised = None

\* C5: when the fetch succeeded, the exit status is 1 exactly when extraction yielded
\* no entry and 0 exactly when it yielded at least one.
C5_StatusTellsExtraction ==
    (pc = "exited" /\ FetchSucceeded) =>
        /\ (exit_status = Some(1)) <=> (entries = <<>>)
        /\ (exit_status = Some(0)) <=> (entries # <<>>)

Diagnosed == \E i \in 1..Len(stderr) : stderr[i] = NoEntriesMessage

EmptyOutput ==
    IF args.json
    THEN <<[kind |-> "json array", payload |-> <<>>], [kind |-> "newline", payload |-> <<>>]>>
    ELSE <<[kind |-> "csv header", payload |-> <<>>]>>

\* C6: once the diagnostic is on stderr, and when main has returned 1, the empty
\* result is already on stdout in the requested format: the header row alone, or [].
C6_EmptyResultIsWritten ==
    (Diagnosed \/ (pc = "exited" /\ exit_status = Some(1) /\ raised = None))
        => stdout = EmptyOutput

\* A run with --json ended with status 1 for want of entries.
C6_Witness ==
    /\ pc = "exited"
    /\ exit_status = Some(1)
    /\ Diagnosed
    /\ args.json

\* C7: urlopen is called at most once; when it fails the run ends at once with a
\* non-zero status, with nothing extracted, trimmed or written to stdout.
C7_OneRequestNoRecovery ==
    /\ requests <= 1
    /\ raised # None =>
          /\ pc = "exited"
          /\ requests = 1
          /\ exit_status # None
          /\ exit_status[1] # 0
          /\ steps = <<"parse_args", "build_url">>
          /\ pos = 1 /\ entries = <<>> /\ seen = {} /\ main_entries = <<>>
          /\ stdout = <<>>

\* The request failed.
C7_Witness ==
    /\ raised = Some("URLError")
    /\ pc = "exited"
    /\ exit_status = Some(1)

Order ==
    <<"parse_args", "build_url", "fetch_html", "extract_apps", "trim_entries",
      "output", "return">>

\* C8: the steps of a run are done in the fixed order, each at most once; with a
\* malformed option value the run ends in option parsing, with no request made and
\* nothing written to stdout.
C8_FixedOrderAndEarlyAbort ==
    /\ IsPrefix(steps, Order)
    /\ Malformed(argv) =>
          /\ pc \in {"parse_args", "exited"}
          /\ steps = <<>>
          /\ requests = 0
          /\ stdout = <<>>

\* A run given a --limit that is no integer has ended with the usage error.
C8_Witness ==
    /\ Malformed(argv)
    /\ pc = "exited"
    /\ exit_status = Some(2)
    /\ stderr = <<"usage">>

\* The first match with the identifier of the entry e.
FirstMatchOf(h, e) ==
    LET ms == Matches(h, 1)
    IN ms[Min({i \in 1..Len(ms) : ms[i].group1 = e.app_id})]

\* The anchor tag of a match, `<a ... >`, carries an aria-label attribute.
TagHasAriaLabel(h, m) == \E i \in m.start..(m.tag_stop - 1) : h[i] = ARIA

\* C9: the title of an entry is empty unless the anchor tag of the first occurrence
\* of its identifier carries an aria-label attribute itself.
C9_TitleFromTheTagOnly ==
    Returned =>
        \A i \in 1..Len(entries) :
            entries[i].title # <<>> => TagHasAriaLabel(html, FirstMatchOf(html, entries[i]))

\* The names of the query parameters of a URL, in order.
RECURSIVE KeysFrom(_, _)
KeysFrom(q, i) ==
    IF i > Len(q) THEN <<>>
    ELSE (IF i = 1 \/ q[i - 1] = "&" THEN <<q[i]>> ELSE <<>>) \o KeysFrom(q, i + 1)

QueryKeys(u) == KeysFrom(SubSeq(u, 3, Len(u)), 1)

\* C10: the URL has the parameters hl, gl and category in that order, with category
\* present exactly when a category was given, whatever string it is.
C10_CategoryWhenGiven ==
    Len(steps) >= 2 =>
        QueryKeys(url) = <<"hl", "gl">>
                         \o (IF args.category # None THEN <<"category">> ELSE <<>>)

====
